---- MODULE Spec2Model ----
(***************************************************************************)
(* Model of the realtime conversation core of the dispatch voice backend:  *)
(*   - LLMService.generate_response   (app/services/llm_service.py)        *)
(*   - retell_llm_websocket           (app/routes/webhook.py)              *)
(*   - retell_webhook                 (app/routes/webhook.py)              *)
(*   - post_process_transcript_with_llm (app/routes/webhook.py)            *)
(* One call record and the one duplex session bound to it are modelled.    *)
(* A Python dict is a function whose DOMAIN is its key set; the call's     *)
(* structured_results column holds None until a handler assigns a dict,    *)
(* and every read of it in the handlers is a truthiness test, so None and  *)
(* the empty dict are both the empty function here.                        *)
(* structured_results is the committed column of the call record: a        *)
(* handler's writes reach it at the handler's db.commit(), and a commit    *)
(* that raises leaves the column as it was.                                *)
(***************************************************************************)
EXTENDS Integers, Sequences, FiniteSets, TLC

\* ------------------------------------------------------------------ bounds
MaxTurns == 2          \* inbound events one session reads
MaxWebhookEvents == 2  \* lifecycle webhook requests delivered for the call

\* ------------------------------------------------------------- dict helpers
EmptyDict == [k \in {} |-> TRUE]

Truthy(d) == DOMAIN d # {}

\* dict.update(other)
DictUpdate(d, other) ==
    [k \in (DOMAIN d) \cup (DOMAIN other) |->
        IF k \in DOMAIN other THEN other[k] ELSE d[k]]

\* d[key] = value
DictSet(d, key, value) ==
    [k \in (DOMAIN d) \cup {key} |-> IF k = key THEN value ELSE d[k]]

\* d.get(key) == value, for a key that may be absent
Has(d, key, value) == key \in DOMAIN d /\ d[key] = value

\* ------------------------------------------------- function declarations
\* FUNCTIONS: the three functions declared to the model
FUNCTIONS == {"update_delivery_status", "report_emergency", "end_conversation"}

\* enum of update_delivery_status.status
StatusEnum == {"driving", "delayed", "arrived", "unloading"}

\* enum of report_emergency.emergency_type
EmergencyTypeEnum == {"accident", "breakdown", "medical", "other"}

\* An argument payload is the JSON text the provider returns. Three classes
\* of text are told apart: an object (with its members), a JSON value that
\* is not an object, and text that is not JSON.
JsonObject(d) == [json |-> "object", value |-> d]
JsonScalar == [json |-> "scalar"]
JsonInvalid == [json |-> "invalid"]

\* json.loads: raises on text that is not JSON, else returns the value
JsonLoads(text) ==
    IF text.json = "invalid" THEN [raised |-> TRUE]
    ELSE IF text.json = "object"
         THEN [raised |-> FALSE, isdict |-> TRUE, value |-> text.value]
         ELSE [raised |-> FALSE, isdict |-> FALSE]

\* a function name outside FUNCTIONS
UnknownFunction == "lookup_weather"

NoFunctionCall == [none |-> TRUE]

IsFunctionCall(fc) == "name" \in DOMAIN fc

Call(name, arguments) == [name |-> name, arguments |-> arguments]

\* ------------------------------------------------------ provider clients
Providers == {"groq", "openai"}

\* _groq_generate / _openai_generate: raise (no client configured, network,
\* auth, malformed response) or return {content, function_call}
ProviderFailure == [raised |-> TRUE]

\* what a client returns when it does not raise
Completion(content, function_call) ==
    [raised |-> FALSE, content |-> content, function_call |-> function_call]

\* completions of a conversation turn
TurnCompletions ==
    { Completion("", NoFunctionCall),
      Completion("Copy that.", NoFunctionCall),
      Completion("", Call("update_delivery_status", JsonObject([status |-> "delayed"]))),
      Completion("", Call("update_delivery_status",
                          JsonObject([status |-> "arrived", eta |-> "5pm"]))),
      Completion("", Call("report_emergency",
                          JsonObject([emergency_type |-> "accident",
                                      location |-> "I-40 mile marker 212"]))),
      Completion("", Call("report_emergency",
                          JsonObject([emergency_type |-> "breakdown",
                                      location |-> "US-287"]))),
      Completion("Goodbye.", Call("end_conversation", JsonObject(EmptyDict))),
      Completion("Copy that.", Call(UnknownFunction, JsonObject(EmptyDict))) }

\* ------------------------------------------------------- LLM orchestrator
\* the client the if/else of generate_response calls for a provider name
ClientFor(provider) == IF provider = "groq" THEN "groq" ELSE "openai"

Outcome(client, groq, openai) == IF client = "groq" THEN groq ELSE openai

\* generate_response with the failed primary tried again instead of the
\* alternate
GenerateResponse_RetryPrimary(primary_provider, groq, openai) ==
    LET first == ClientFor(primary_provider)
        r1 == Outcome(first, groq, openai)
    IN  IF ~r1.raised
        THEN [raised |-> FALSE, content |-> r1.content,
              function_call |-> r1.function_call,
              provider_used |-> primary_provider, fallback_used |-> FALSE,
              invoked |-> <<first>>, answered_by |-> first]
        ELSE [raised |-> TRUE, invoked |-> <<first, first>>]

\* LLMService.generate_response. groq and openai are what the two clients
\* do when called. The record returned carries the function's result (or
\* raised), and the clients it called in order (invoked) and the client
\* whose completion is returned (answered_by).
GenerateResponse(primary_provider, groq, openai) ==
    LET fallback_provider == IF primary_provider = "groq" THEN "openai" ELSE "groq"
        first == ClientFor(primary_provider)
        second == ClientFor(fallback_provider)
        r1 == Outcome(first, groq, openai)
        r2 == Outcome(second, groq, openai)
    IN  IF ~r1.raised
        THEN [raised |-> FALSE, content |-> r1.content,
              function_call |-> r1.function_call,
              provider_used |-> primary_provider, fallback_used |-> FALSE,
              invoked |-> <<first>>, answered_by |-> first]
        ELSE IF ~r2.raised
        THEN [raised |-> FALSE, content |-> r2.content,
              function_call |-> r2.function_call,
              provider_used |-> fallback_provider, fallback_used |-> TRUE,
              invoked |-> <<first, second>>, answered_by |-> second]
        ELSE [raised |-> TRUE, invoked |-> <<first, second>>]

\* ------------------------------------------------------------- settings
\* the stored llm_provider row: absent, or any string (DEFAULT_LLM_PROVIDER
\* is an unvalidated environment string)
NoRow == "<no row>"
SettingRows == {NoRow, "groq", "openai", "mistral"}

\* get_setting(db, key, default)
GetSetting(row, default) == IF row = NoRow THEN default ELSE row

\* ---------------------------------------------------- heuristic extractor
None == "<None>"

\* A transcript is its text, the keywords of the extractor's and the
\* analyzer's tables that occur in it (both only test substrings), and what
\* the extractor's regular expressions for location and ETA match in it.
Transcript(text, contains, location, eta) ==
    [text |-> text, contains |-> contains, location |-> location, eta |-> eta]

EMPTY_TRANSCRIPT == Transcript("", {}, None, None)

DELAY_TRANSCRIPT ==
    Transcript("I'm running late, stuck in traffic, should be there by 5pm",
               {"late", "stuck", "traffic", "here"}, None, None)

ACCIDENT_TRANSCRIPT ==
    Transcript("we had an accident, everyone is fine, I-40 mile marker 212",
               {"accident", "fine", "mile marker"}, "mile marker 212", None)

\* any(keyword in transcript_lower for keyword in keywords)
AnyIn(keywords, transcript) == keywords \cap transcript.contains # {}

EMERGENCY_KEYWORDS ==
    {"emergency", "accident", "crash", "blowout", "breakdown",
     "medical", "injured", "hurt", "sick", "fire", "help"}

\* STATUS_KEYWORDS, in the order the dict is iterated
STATUS_KEYWORDS ==
    << [status |-> "driving",
        keywords |-> {"driving", "on the road", "en route", "heading", "moving"}],
       [status |-> "delayed",
        keywords |-> {"delayed", "stuck", "waiting", "traffic", "late"}],
       [status |-> "arrived",
        keywords |-> {"arrived", "here", "at the location", "made it", "pulled in"}],
       [status |-> "unloading",
        keywords |-> {"unloading", "unload", "getting unloaded", "at the dock"}] >>

\* str.capitalize on the status names
Capitalize(word) ==
    CASE word = "driving" -> "Driving"
      [] word = "delayed" -> "Delayed"
      [] word = "arrived" -> "Arrived"
      [] word = "unloading" -> "Unloading"
      [] OTHER -> word

DetectEmergency(transcript) == AnyIn(EMERGENCY_KEYWORDS, transcript)

DriverStatus_LastHit(transcript) ==
    LET hits == {i \in 1..Len(STATUS_KEYWORDS) : AnyIn(STATUS_KEYWORDS[i].keywords, transcript)}
    IN  IF hits = {} THEN "Unknown"
        ELSE Capitalize(STATUS_KEYWORDS[CHOOSE i \in hits : \A j \in hits : i >= j].status)

\* the first status whose keywords occur, capitalized, else "Unknown"
DriverStatus(transcript) ==
    LET hits == {i \in 1..Len(STATUS_KEYWORDS) : AnyIn(STATUS_KEYWORDS[i].keywords, transcript)}
    IN  IF hits = {} THEN "Unknown"
        ELSE Capitalize(STATUS_KEYWORDS[CHOOSE i \in hits : \A j \in hits : i <= j].status)

ExtractDelayReason(transcript) ==
    IF AnyIn({"traffic", "congestion", "jam"}, transcript) THEN "Heavy Traffic"
    ELSE IF AnyIn({"weather", "rain", "snow", "storm", "fog"}, transcript) THEN "Weather"
    ELSE IF AnyIn({"mechanical", "truck issue", "problem with"}, transcript) THEN "Mechanical"
    ELSE IF AnyIn({"no delay", "on time", "on schedule"}, transcript) THEN "None"
    ELSE None

\* the door number is not kept: "In Door N" for the N of the transcript
ExtractUnloadingStatus(transcript) ==
    IF AnyIn({"door <n>"}, transcript) THEN "In Door N"
    ELSE IF AnyIn({"waiting", "lumper"}, transcript) THEN "Waiting for Lumper"
    ELSE IF AnyIn({"detention"}, transcript) THEN "Detention"
    ELSE "N/A"

CheckPodAcknowledgment(transcript) ==
    /\ AnyIn({"pod", "proof of delivery", "paperwork"}, transcript)
    /\ AnyIn({"yes", "sure", "okay", "got it", "will do", "understood"}, transcript)

ExtractCheckinData(transcript) ==
    LET driver_status == DriverStatus(transcript)
    IN  [call_outcome |-> IF driver_status \in {"Arrived", "Unloading"}
                          THEN "Arrival Confirmation" ELSE "In-Transit Update",
         driver_status |-> driver_status,
         current_location |-> transcript.location,
         eta |-> transcript.eta,
         delay_reason |-> ExtractDelayReason(transcript),
         unloading_status |-> ExtractUnloadingStatus(transcript),
         pod_reminder_acknowledged |-> CheckPodAcknowledgment(transcript)]

EmergencyType(transcript) ==
    IF AnyIn({"accident", "crash", "hit"}, transcript) THEN "Accident"
    ELSE IF AnyIn({"breakdown", "blowout", "broke down"}, transcript) THEN "Breakdown"
    ELSE IF AnyIn({"medical", "sick", "injured", "hurt"}, transcript) THEN "Medical"
    ELSE "Other"

ExtractSafetyStatus(transcript) ==
    IF AnyIn({"safe", "okay", "fine", "unharmed"}, transcript)
    THEN "Driver confirmed everyone is safe"
    ELSE IF AnyIn({"unsafe", "danger", "not safe"}, transcript)
    THEN "Safety concerns reported"
    ELSE None

ExtractInjuryStatus(transcript) ==
    IF AnyIn({"no injuries", "not hurt", "not injured", "everyone's fine"}, transcript)
    THEN "No injuries reported"
    ELSE IF AnyIn({"injured", "hurt", "bleeding", "pain"}, transcript)
    THEN "Injuries reported"
    ELSE None

\* Optional[bool], written "true" / "false" / None
CheckLoadSecure(transcript) ==
    IF AnyIn({"load is secure", "cargo safe", "freight okay"}, transcript) THEN "true"
    ELSE IF AnyIn({"load damaged", "cargo shift", "freight issue"}, transcript) THEN "false"
    ELSE None

ExtractEmergencyData(transcript) ==
    [call_outcome |-> "Emergency Escalation",
     emergency_type |-> EmergencyType(transcript),
     safety_status |-> ExtractSafetyStatus(transcript),
     injury_status |-> ExtractInjuryStatus(transcript),
     emergency_location |-> transcript.location,
     load_secure |-> CheckLoadSecure(transcript),
     escalation_status |-> "Connected to Human Dispatcher"]

\* TranscriptProcessor.process_transcript
ProcessTranscript(transcript) ==
    IF DetectEmergency(transcript) THEN ExtractEmergencyData(transcript)
    ELSE ExtractCheckinData(transcript)

\* ---------------------------------------------------------------- texts
DEFAULT_INITIAL_MESSAGE == "Hi, this is Dispatch calling. How can I help you today?"
STATUS_REPLY == "Got it, I've updated your status. Thank you!"
EMERGENCY_REPLY == "I understand this is an emergency. I'm connecting you to a dispatcher now."
END_REPLY == "Thank you for the update. Drive safely!"
APOLOGY == "I'm having trouble processing that. Can you repeat?"

\* agent.initial_message: nullable column
InitialMessages == {"", "Dispatch here, checking in on your load."}

\* the last user message of an inbound transcript ("" when there is none)
UserTexts == {"", "running late, stuck in traffic"}

\* interaction_type values of inbound events
InteractionTypes == {"response_required", "update_only", "ping_pong"}

\* inbound events, as far as the handler reads them: the interaction_type,
\* and for response_required the response_id and the last user message of
\* the transcript. The platform numbers its events: the n-th event it sends
\* carries response_id n.
InboundEvents(n) ==
    {[interaction_type |-> "response_required", response_id |-> n,
      last_user_message |-> text] : text \in UserTexts}
    \cup {[interaction_type |-> it, response_id |-> n, last_user_message |-> ""] :
            it \in InteractionTypes \ {"response_required"}}

\* ---------------------------------------------------------------- state
VARIABLES
    call_exists,           \* a Call row with this retell_call_id exists
    agent,                 \* call.agent_configuration: [present, initial_message]
    setting_row,           \* system_settings row "llm_provider"
    status,                \* call.status
    raw_transcript,        \* call.raw_transcript
    structured_results,    \* call.structured_results
    pc,                    \* where the websocket handler is
    llm_provider,          \* handler local: provider read at connect
    conversation_history,  \* handler local
    should_end_call,       \* handler local
    response_id,           \* handler local: response_id of the turn in progress
    db_open,               \* the handler's database session is open
    peer_connected,        \* the platform's end of the socket is connected
    sent,                  \* events the handler has sent on the socket, in order
    received,              \* events the handler has read from the socket, in order
    last,                  \* what happened on the last response_required turn
    webhook_count,         \* lifecycle webhook requests handled so far
    last_webhook,          \* what the last lifecycle webhook request did
    extractions,           \* requests so far that ran post-call extraction
    gen,                   \* last generate_response call made on its own: [args, result]
    analysis,              \* last analyze_call call: [arguments, result]
    extracted,             \* last process_transcript call: [transcript, result]
    postprocessed,         \* last post-call extraction: [arguments, result, stored]
    history_writes         \* conversation histories the session wrote to the database, in order

call_vars == <<call_exists, agent, setting_row, status, raw_transcript, structured_results>>
session_vars == <<pc, llm_provider, conversation_history, should_end_call, response_id,
                  db_open, peer_connected, sent, received, last>>
vars == <<call_exists, agent, setting_row, status, raw_transcript, structured_results,
          pc, llm_provider, conversation_history, should_end_call, response_id,
          db_open, peer_connected, sent, received, last,
          webhook_count, last_webhook, extractions, gen, analysis, extracted, postprocessed, history_writes>>

NoTurn == [kind |-> "none"]
NoAgent == [present |-> FALSE]
NoGen == [called |-> FALSE]
NoWebhook == [event |-> "none"]
NoAnalysis == [called |-> FALSE]
NoExtracted == [called |-> FALSE]
NoPostProcessed == [called |-> FALSE]
webhook_vars == <<webhook_count, last_webhook, extractions>>

\* the call record as initiate_call leaves it, before the platform connects
Init ==
    /\ call_exists \in BOOLEAN
    /\ agent \in {NoAgent} \cup {[present |-> TRUE, initial_message |-> m] : m \in InitialMessages}
    /\ setting_row \in {NoRow, "mistral"}
    /\ status = "ringing"
    /\ raw_transcript = EMPTY_TRANSCRIPT
    /\ structured_results = EmptyDict
    /\ pc = "connecting"
    /\ llm_provider = ""
    /\ conversation_history = <<>>
    /\ should_end_call = FALSE
    /\ response_id = 0
    /\ db_open = FALSE
    /\ peer_connected = TRUE
    /\ sent = <<>>
    /\ received = <<>>
    /\ last = NoTurn
    /\ webhook_count = 0
    /\ last_webhook = NoWebhook
    /\ extractions = 0
    /\ gen = NoGen
    /\ analysis = NoAnalysis
    /\ extracted = NoExtracted
    /\ postprocessed = NoPostProcessed
    /\ history_writes = <<>>

\* -------------------------------------------------------------- session
TurnResponse_AlwaysEnds(rid, content, end_call) ==
    [response_id |-> rid, content |-> content, content_complete |-> TRUE, end_call |-> TRUE]

\* the response event of one turn
TurnResponse(rid, content, end_call) ==
    [response_id |-> rid, content |-> content, content_complete |-> TRUE, end_call |-> end_call]

\* the opening line numbered like a first turn-response
InitialResponse_Numbered(a) ==
    TurnResponse(1, IF a.initial_message # "" THEN a.initial_message
                    ELSE DEFAULT_INITIAL_MESSAGE, FALSE)

\* agent.initial_message or the default
InitialResponse(a) ==
    TurnResponse(0, IF a.initial_message # "" THEN a.initial_message
                    ELSE DEFAULT_INITIAL_MESSAGE, FALSE)

\* the apology without the request's response_id
ErrorResponse_ZeroId(rid) == TurnResponse(0, APOLOGY, FALSE)

\* the apology ending the call
ErrorResponse_EndsCall(rid) == TurnResponse(rid, APOLOGY, TRUE)

ErrorResponse(rid) == TurnResponse(rid, APOLOGY, FALSE)

\* the handler greeting before it looks the call up
Connect_GreetsBeforeLookup ==
    /\ pc = "connecting"
    /\ IF ~call_exists \/ ~agent.present
       THEN /\ pc' = "ended"
            /\ db_open' = TRUE
            /\ peer_connected' = FALSE
            /\ sent' = Append(sent, TurnResponse(0, DEFAULT_INITIAL_MESSAGE, FALSE))
            /\ UNCHANGED llm_provider
       ELSE /\ llm_provider' = GetSetting(setting_row, "groq")
            /\ IF peer_connected
               THEN /\ sent' = Append(sent, InitialResponse(agent))
                    /\ pc' = "awaiting"
                    /\ db_open' = TRUE
               ELSE /\ sent' = sent
                    /\ pc' = "ended"
                    /\ db_open' = FALSE
            /\ UNCHANGED peer_connected
    /\ UNCHANGED <<call_vars, conversation_history, should_end_call, response_id,
                   received, last, webhook_vars, gen, analysis, extracted, postprocessed, history_writes>>

\* accept, open a database session, look the call and its agent up, read the
\* provider setting, send the initial message
Connect ==
    /\ pc = "connecting"
    /\ IF ~call_exists \/ ~agent.present
       THEN \* websocket.close(); return
            /\ pc' = "ended"
            /\ db_open' = TRUE
            /\ peer_connected' = FALSE
            /\ UNCHANGED <<llm_provider, sent>>
       ELSE /\ llm_provider' = GetSetting(setting_row, "groq")
            /\ IF peer_connected
               THEN /\ sent' = Append(sent, InitialResponse(agent))
                    /\ pc' = "awaiting"
                    /\ db_open' = TRUE
               ELSE \* send_json raises; finally: db.close()
                    /\ sent' = sent
                    /\ pc' = "ended"
                    /\ db_open' = FALSE
            /\ UNCHANGED peer_connected
    /\ UNCHANGED <<call_vars, conversation_history, should_end_call, response_id,
                   received, last, webhook_vars, gen, analysis, extracted, postprocessed, history_writes>>

\* the platform's side of the socket goes away
PeerDisconnect ==
    /\ peer_connected
    /\ pc \in {"connecting", "awaiting", "responding"}
    /\ peer_connected' = FALSE
    /\ UNCHANGED <<call_vars, pc, llm_provider, conversation_history, should_end_call,
                   response_id, db_open, sent, received, last, webhook_vars, gen, analysis, extracted, postprocessed, history_writes>>

\* the dispatch answers update_only like response_required
IsResponseRequired_OrUpdate(data) ==
    data.interaction_type \in {"response_required", "update_only"}

\* if interaction_type == "response_required"
IsResponseRequired(data) == data.interaction_type = "response_required"

ReadyToReceive_Reentrant == pc \in {"awaiting", "responding"}

\* the handler is one coroutine: it reads the next event only when its loop
\* is back at receive_json, never while a turn awaits the model or a commit
ReadyToReceive == pc = "awaiting"

\* receive_json and the dispatch on interaction_type, up to the model call;
\* events[n] are the events the platform may send as its n-th
ReceiveEventFrom(events) ==
    /\ ReadyToReceive
    /\ IF ~peer_connected
       THEN \* WebSocketDisconnect; finally: db.close()
            /\ pc' = "ended"
            /\ db_open' = FALSE
            /\ UNCHANGED <<conversation_history, response_id, received>>
       ELSE /\ Len(received) < MaxTurns
            /\ \E data \in events[Len(received) + 1] :
                 LET it == data.interaction_type
                     rid == data.response_id
                     text == data.last_user_message
                 IN  /\ received' = Append(received, data)
                     /\ IF IsResponseRequired(data)
                        THEN /\ response_id' = rid
                             /\ conversation_history' =
                                  IF text # ""
                                  THEN Append(conversation_history,
                                              [role |-> "user", content |-> text])
                                  ELSE conversation_history
                             /\ pc' = "responding"
                        ELSE UNCHANGED <<response_id, conversation_history, pc>>
            /\ UNCHANGED db_open
    /\ UNCHANGED <<call_vars, llm_provider, should_end_call, peer_connected, sent, last,
                   webhook_vars, gen, analysis, extracted, postprocessed, history_writes>>

\* the fallback-log block: append an entry to structured_results["llm_fallbacks"]
AppendFallback(sr, stamp, primary, used) ==
    LET log == IF "llm_fallbacks" \in DOMAIN sr THEN sr["llm_fallbacks"] ELSE <<>>
    IN  DictSet(sr, "llm_fallbacks",
                Append(log, [timestamp |-> stamp, primary |-> primary, used |-> used]))

\* update_delivery_status keeping the values already stored
StatusRecord_KeepExisting(sr, arguments) ==
    DictSet(DictUpdate(arguments, sr), "data_source", "websocket_realtime")

\* the record update_delivery_status leaves in structured_results
StatusRecord(sr, arguments) ==
    DictSet(DictUpdate(sr, arguments), "data_source", "websocket_realtime")

\* report_emergency without the emergency flag
EmergencyRecord_ArgumentsOnly(sr, arguments) ==
    DictSet(DictUpdate(sr, arguments), "data_source", "websocket_realtime")

\* the record report_emergency leaves in structured_results
EmergencyRecord(sr, arguments) ==
    DictSet(DictUpdate(sr, DictUpdate([emergency |-> TRUE], arguments)),
            "data_source", "websocket_realtime")

BranchFor_DefaultEnd(function_name) ==
    IF function_name \in FUNCTIONS THEN function_name ELSE "end_conversation"

\* the branch of the if / elif chain on function_name; the chain has no
\* else, so any other name takes no branch
BranchFor(function_name) ==
    IF function_name \in FUNCTIONS THEN function_name ELSE "<no branch>"

\* the "Handle function call" block. Returns the column as committed, the
\* reply text, the should-end flag and whether the block raised.
ExecuteFunction(sr, function_call, response_text, should_end, commit_ok) ==
    LET function_name == BranchFor(function_call.name)
        parsed == JsonLoads(function_call.arguments)
        \* except: arguments = {}
        isdict == parsed.raised \/ parsed.isdict
        arguments == IF parsed.raised THEN EmptyDict
                     ELSE IF parsed.isdict THEN parsed.value ELSE EmptyDict
        unchanged == [structured_results |-> sr, response_text |-> response_text,
                      should_end_call |-> should_end, raised |-> FALSE]
        failed == [unchanged EXCEPT !.raised = TRUE]
    IN  IF function_name = "update_delivery_status"
        THEN IF ~isdict \/ ~commit_ok THEN failed
             ELSE [unchanged EXCEPT !.structured_results = StatusRecord(sr, arguments),
                                    !.response_text = STATUS_REPLY]
        ELSE IF function_name = "report_emergency"
        THEN IF ~isdict \/ ~commit_ok THEN failed
             ELSE [unchanged EXCEPT !.structured_results = EmergencyRecord(sr, arguments),
                                    !.response_text = EMERGENCY_REPLY,
                                    !.should_end_call = TRUE]
        ELSE IF function_name = "end_conversation"
        THEN [unchanged EXCEPT !.response_text = END_REPLY, !.should_end_call = TRUE]
        ELSE unchanged

\* the body of the inner try of one response_required turn and its except:
\* the model call, the fallback log, the function call, the history entry
\* and the response to send. commit_log_ok and commit_fn_ok say whether the
\* two db.commit() calls of the turn succeed.
HandleTurn(sr, history, should_end, provider, rid, stamp, groq, openai, commit_log_ok, commit_fn_ok) ==
    LET llm_response == GenerateResponse(provider, groq, openai)
        apology(stored) ==
            [structured_results |-> stored, conversation_history |-> history,
             should_end_call |-> should_end, response |-> ErrorResponse(rid),
             raised |-> TRUE]
    IN  IF llm_response.raised THEN apology(sr)
        ELSE IF llm_response.fallback_used /\ ~commit_log_ok THEN apology(sr)
        ELSE
          LET logged == IF llm_response.fallback_used
                        THEN AppendFallback(sr, stamp, provider, llm_response.provider_used)
                        ELSE sr
              done == IF IsFunctionCall(llm_response.function_call)
                      THEN ExecuteFunction(logged, llm_response.function_call,
                                           llm_response.content, should_end, commit_fn_ok)
                      ELSE [structured_results |-> logged,
                            response_text |-> llm_response.content,
                            should_end_call |-> should_end, raised |-> FALSE]
          IN  IF done.raised THEN apology(logged)
              ELSE [structured_results |-> done.structured_results,
                    conversation_history |->
                        Append(history, [role |-> "assistant", content |-> done.response_text]),
                    should_end_call |-> done.should_end_call,
                    response |-> TurnResponse(rid, done.response_text, done.should_end_call),
                    raised |-> FALSE]

\* what the turn did, kept for the statements about single turns
TurnRecord(rid, llm_response, t, delivered) ==
    [kind |-> "turn",
     response_id |-> rid,
     llm_raised |-> llm_response.raised,
     function_call |-> IF llm_response.raised THEN NoFunctionCall
                       ELSE llm_response.function_call,
     fallback_used |-> IF llm_response.raised THEN FALSE ELSE llm_response.fallback_used,
     content |-> IF llm_response.raised THEN "" ELSE llm_response.content,
     raised |-> t.raised,
     delivered |-> delivered]

\* the loop goes on after a turn-response with end_call
AfterTurnResponse_NoBreak(response) == "awaiting"

\* if should_end_call: break
AfterTurnResponse(response) == IF response.end_call THEN "ended" ELSE "awaiting"

\* the model call returns (or raises) and the handler finishes the turn;
\* completions are the completions a client may return,
\* commits the outcomes a db.commit() may have (TRUE: it succeeds)
RespondWith(completions, commits) ==
    /\ pc = "responding"
    /\ \E groq_raises \in BOOLEAN, openai_raises \in BOOLEAN, completion \in completions,
          commit_log_ok \in commits, commit_fn_ok \in commits :
         LET groq == IF groq_raises THEN ProviderFailure ELSE completion
             openai == IF openai_raises THEN ProviderFailure ELSE completion
             t == HandleTurn(structured_results, conversation_history, should_end_call,
                             llm_provider, response_id, Len(received), groq, openai,
                             commit_log_ok, commit_fn_ok)
             llm_response == GenerateResponse(llm_provider, groq, openai)
         IN  /\ structured_results' = t.structured_results
             /\ conversation_history' = t.conversation_history
             /\ should_end_call' = t.should_end_call
             /\ last' = TurnRecord(response_id, llm_response, t, peer_connected)
             /\ IF peer_connected
                THEN /\ sent' = Append(sent, t.response)
                     /\ pc' = AfterTurnResponse(t.response)
                     /\ db_open' = ~t.response.end_call
                ELSE \* send_json raises, in the try and again in its except;
                     \* the outer except ends the handler; finally: db.close()
                     /\ sent' = sent
                     /\ pc' = "ended"
                     /\ db_open' = FALSE
    /\ UNCHANGED <<call_exists, agent, setting_row, status, raw_transcript, llm_provider,
                   response_id, peer_connected, received, webhook_vars, gen, analysis, extracted, postprocessed, history_writes>>

ReceiveEvent == ReceiveEventFrom([n \in 1..MaxTurns |-> InboundEvents(n)])

Respond == RespondWith(TurnCompletions, BOOLEAN)

\* ------------------------------------------------- post-call extraction
\* replies of the model to the extraction prompt that carry JSON text
JSON_REPLY == "{\"status\": \"delayed\", \"eta\": null}"
MALFORMED_REPLY == "Here you go: {status: delayed}"

\* re.search(r'\{.*\}', content) followed by json.loads of the match
EmbeddedJson(content) ==
    IF content = JSON_REPLY
    THEN [match |-> TRUE, raised |-> FALSE, value |-> [status |-> "delayed", eta |-> None]]
    ELSE IF content = MALFORMED_REPLY
    THEN [match |-> TRUE, raised |-> TRUE]
    ELSE [match |-> FALSE]

\* completions of the extraction prompt
ExtractionCompletions ==
    { Completion("", Call("update_delivery_status", JsonObject([status |-> "delayed"]))),
      Completion("", Call("update_delivery_status", JsonScalar)),
      Completion("I could not extract anything.", Call("update_delivery_status", JsonInvalid)),
      Completion(JSON_REPLY, NoFunctionCall),
      Completion(MALFORMED_REPLY, NoFunctionCall),
      Completion("I could not extract anything.", NoFunctionCall) }

\* the reply's text read before the function call
PostProcessTranscript_ContentFirst(call_agent, row, transcript, groq, openai) ==
    LET heuristic(llm_called) ==
            [value |-> ProcessTranscript(transcript), isdict |-> TRUE,
             llm_called |-> llm_called, heuristic_called |-> TRUE]
        llm_response == GenerateResponse(GetSetting(row, "groq"), groq, openai)
        function_call == llm_response.function_call
        parsed == JsonLoads(function_call.arguments)
        found == EmbeddedJson(llm_response.content)
    IN  IF ~call_agent.present THEN heuristic(FALSE)
        ELSE IF llm_response.raised THEN heuristic(TRUE)
        ELSE IF found.match /\ ~found.raised
        THEN [value |-> found.value, isdict |-> TRUE,
              llm_called |-> TRUE, heuristic_called |-> FALSE]
        ELSE IF IsFunctionCall(function_call) /\ ~parsed.raised
        THEN [value |-> IF parsed.isdict THEN parsed.value ELSE EmptyDict,
              isdict |-> parsed.isdict,
              llm_called |-> TRUE, heuristic_called |-> FALSE]
        ELSE heuristic(TRUE)

\* post_process_transcript_with_llm: the value it returns (isdict: it is a
\* dict), and which of the model call and the heuristic extractor it ran
PostProcessTranscript(call_agent, row, transcript, groq, openai) ==
    LET heuristic(llm_called) ==
            [value |-> ProcessTranscript(transcript), isdict |-> TRUE,
             llm_called |-> llm_called, heuristic_called |-> TRUE]
        llm_response == GenerateResponse(GetSetting(row, "groq"), groq, openai)
        function_call == llm_response.function_call
        parsed == JsonLoads(function_call.arguments)
        found == EmbeddedJson(llm_response.content)
    IN  IF ~call_agent.present THEN heuristic(FALSE)
        ELSE IF llm_response.raised THEN heuristic(TRUE)
        ELSE IF IsFunctionCall(function_call) /\ ~parsed.raised
        THEN [value |-> IF parsed.isdict THEN parsed.value ELSE EmptyDict,
              isdict |-> parsed.isdict,
              llm_called |-> TRUE, heuristic_called |-> FALSE]
        ELSE IF found.match /\ ~found.raised
        THEN [value |-> found.value, isdict |-> TRUE,
              llm_called |-> TRUE, heuristic_called |-> FALSE]
        ELSE heuristic(TRUE)

\* what the except of the call_ended branch stores
PostProcessingFailed ==
    [error |-> "post_processing_failed", message |-> "TypeError", data_source |-> "error"]

NoExtraction == [has_websocket_data |-> FALSE, llm_called |-> FALSE, heuristic_called |-> FALSE]

\* the "Process transcript intelligently" block of the call_ended branch
ProcessCallEnded(sr, call_agent, row, transcript, groq, openai) ==
    LET has_websocket_data == Truthy(sr) /\ "llm_fallbacks" \notin DOMAIN sr
        structured_data == PostProcessTranscript(call_agent, row, transcript, groq, openai)
        merged == IF Truthy(sr) THEN DictUpdate(sr, structured_data.value)
                  ELSE structured_data.value
    IN  IF transcript.text = ""
        THEN [structured_results |-> sr, ran |-> NoExtraction]
        ELSE IF has_websocket_data
        THEN [structured_results |-> DictSet(sr, "data_source", "websocket_realtime"),
              ran |-> [NoExtraction EXCEPT !.has_websocket_data = TRUE]]
        ELSE [structured_results |->
                  IF structured_data.isdict
                  THEN DictSet(merged, "data_source", "webhook_postprocessing")
                  ELSE PostProcessingFailed,
              ran |-> [has_websocket_data |-> FALSE,
                       llm_called |-> structured_data.llm_called,
                       heuristic_called |-> structured_data.heuristic_called]]

\* stored records for which call_ended runs the extraction: nothing stored,
\* or a record that holds the fallback log
PostProcessRecords ==
    { EmptyDict,
      AppendFallback(EmptyDict, 1, "groq", "openai"),
      AppendFallback(StatusRecord(EmptyDict, [status |-> "arrived"]), 1, "groq", "openai") }

\* completions of the extraction prompt with both a function call and JSON
\* text, besides those of ExtractionCompletions
PostProcessCompletions ==
    ExtractionCompletions
    \cup { Completion(JSON_REPLY, Call("report_emergency",
                                       JsonObject([emergency_type |-> "accident"]))),
           Completion(JSON_REPLY, Call("update_delivery_status", JsonInvalid)),
           Completion(MALFORMED_REPLY, Call("update_delivery_status", JsonInvalid)) }

\* one post-call extraction of a call_ended request with a transcript, for
\* any stored record without realtime data and any behaviour of the two
\* clients; the extraction keeps nothing between requests
PostProcess ==
    /\ ~postprocessed.called
    /\ \E sr \in PostProcessRecords, transcript \in {DELAY_TRANSCRIPT, ACCIDENT_TRANSCRIPT},
          groq \in {ProviderFailure} \cup PostProcessCompletions,
          openai \in {ProviderFailure} \cup PostProcessCompletions :
         postprocessed' =
             [called |-> TRUE, structured_results |-> sr, transcript |-> transcript,
              groq |-> groq, openai |-> openai,
              result |-> PostProcessTranscript(agent, setting_row, transcript, groq, openai),
              stored |-> ProcessCallEnded(sr, agent, setting_row, transcript,
                                          groq, openai).structured_results]
    /\ UNCHANGED <<call_vars, session_vars, webhook_vars, gen, analysis, extracted, history_writes>>

\* ----------------------------------------------------- lifecycle webhook
\* call_analyzed storing the platform's analysis as the whole record
MergeAnalysis_Replace(sr, call_analysis) ==
    IF Truthy(call_analysis) THEN [retell_analysis |-> call_analysis] ELSE sr

\* the call_analyzed branch: the platform's analysis goes under
\* retell_analysis
MergeAnalysis(sr, call_analysis) ==
    IF Truthy(call_analysis)
    THEN IF Truthy(sr) THEN DictSet(sr, "retell_analysis", call_analysis)
         ELSE [retell_analysis |-> call_analysis]
    ELSE sr

WebhookBody(event, transcript, call_analysis) ==
    [event |-> event, transcript |-> transcript, call_analysis |-> call_analysis]

WebhookBodies ==
    { WebhookBody("call_started", EMPTY_TRANSCRIPT, EmptyDict),
      WebhookBody("call_ended", EMPTY_TRANSCRIPT, EmptyDict),
      WebhookBody("call_ended", DELAY_TRANSCRIPT, EmptyDict),
      WebhookBody("call_ended", ACCIDENT_TRANSCRIPT, EmptyDict),
      WebhookBody("call_analyzed", EMPTY_TRANSCRIPT, EmptyDict),
      WebhookBody("call_analyzed", EMPTY_TRANSCRIPT, [call_summary |-> "Driver checked in."]),
      WebhookBody("call_transferred", EMPTY_TRANSCRIPT, EmptyDict) }

\* the model is only called for a call_ended request that carries a
\* transcript
CallsModel(body) == body.event = "call_ended" /\ body.transcript.text # ""

\* retell_webhook for a request that names the call: the whole handler, from
\* the lookup of the call to db.commit()
RetellWebhookWith(bodies, completions) ==
    /\ webhook_count < MaxWebhookEvents
    /\ \E body \in bodies :
       \E groq_raises \in IF CallsModel(body) THEN BOOLEAN ELSE {TRUE},
          openai_raises \in IF CallsModel(body) THEN BOOLEAN ELSE {TRUE},
          completion \in IF CallsModel(body) THEN completions ELSE {ProviderFailure} :
         LET groq == IF groq_raises THEN ProviderFailure ELSE completion
             openai == IF openai_raises THEN ProviderFailure ELSE completion
             ended == ProcessCallEnded(structured_results, agent, setting_row,
                                       body.transcript, groq, openai)
             ran == IF call_exists /\ body.event = "call_ended" THEN ended.ran
                    ELSE NoExtraction
         IN  /\ webhook_count' = webhook_count + 1
             /\ last_webhook' = [event |-> body.event, found |-> call_exists,
                                 has_websocket_data |-> ran.has_websocket_data,
                                 llm_called |-> ran.llm_called,
                                 heuristic_called |-> ran.heuristic_called]
             /\ extractions' = IF ran.llm_called \/ ran.heuristic_called
                               THEN extractions + 1 ELSE extractions
             /\ IF ~call_exists
                THEN UNCHANGED <<status, raw_transcript, structured_results>>
                ELSE IF body.event = "call_started"
                THEN /\ status' = "in_progress"
                     /\ UNCHANGED <<raw_transcript, structured_results>>
                ELSE IF body.event = "call_ended"
                THEN /\ status' = "completed"
                     /\ raw_transcript' = body.transcript
                     /\ structured_results' = ended.structured_results
                ELSE IF body.event = "call_analyzed"
                THEN /\ structured_results' =
                           MergeAnalysis(structured_results, body.call_analysis)
                     /\ UNCHANGED <<status, raw_transcript>>
                ELSE UNCHANGED <<status, raw_transcript, structured_results>>
    /\ UNCHANGED <<call_exists, agent, setting_row, session_vars, gen, analysis, extracted, postprocessed, history_writes>>

RetellWebhook == RetellWebhookWith(WebhookBodies, ExtractionCompletions)

\* ------------------------------------------- the orchestrator on its own
\* one generate_response call, for any stored provider setting and any
\* behaviour of the two clients
Generate ==
    /\ \E row \in SettingRows, groq \in {ProviderFailure} \cup TurnCompletions,
          openai \in {ProviderFailure} \cup TurnCompletions :
         LET primary_provider == GetSetting(row, "groq")
         IN  gen' = [called |-> TRUE, primary_provider |-> primary_provider,
                     groq |-> groq, openai |-> openai,
                     result |-> GenerateResponse(primary_provider, groq, openai)]
    /\ UNCHANGED <<call_vars, session_vars, webhook_vars, analysis, extracted, postprocessed, history_writes>>

\* ----------------------------------------------------- post-call analysis
\* dict.get(key, default)
DictGet(d, key, default) == IF key \in DOMAIN d THEN d[key] ELSE default

\* bool(d.get(key)) for a key that holds text
Captured(d, key) == key \in DOMAIN d /\ d[key] \notin {"", None}

\* bool(d.get(key)) for a key that holds a flag
Flagged(d, key) == key \in DOMAIN d /\ d[key] = TRUE

\* Confidences are counted in hundredths (0.85 is 85, 85 is 8500) and
\* quality scores in tenths (5.0 is 50).

\* replies of the model to the sentiment prompt
POSITIVE_REPLY == "{\"sentiment\": \"positive\", \"confidence\": 0.85, \"reasoning\": \"polite\"}"
NEGATIVE_REPLY == "{\"sentiment\": \"negative\", \"confidence\": 0.9, \"reasoning\": \"upset\"}"
MIXED_REPLY == "{\"sentiment\": \"mixed\", \"confidence\": 85}"
BARE_REPLY == "Result: {}"
UNQUOTED_REPLY == "{sentiment: positive}"
PROSE_REPLY == "The driver sounded calm."

\* re.search(r'\{.*\}', content, re.DOTALL) followed by json.loads of the
\* match, on the replies to the sentiment prompt
SentimentJson(content) ==
    CASE content = POSITIVE_REPLY ->
           [match |-> TRUE, raised |-> FALSE,
            value |-> [sentiment |-> "positive", confidence |-> 85, reasoning |-> "polite"]]
      [] content = NEGATIVE_REPLY ->
           [match |-> TRUE, raised |-> FALSE,
            value |-> [sentiment |-> "negative", confidence |-> 90, reasoning |-> "upset"]]
      [] content = MIXED_REPLY ->
           [match |-> TRUE, raised |-> FALSE,
            value |-> [sentiment |-> "mixed", confidence |-> 8500]]
      [] content = BARE_REPLY -> [match |-> TRUE, raised |-> FALSE, value |-> EmptyDict]
      [] content = UNQUOTED_REPLY -> [match |-> TRUE, raised |-> TRUE]
      [] OTHER -> [match |-> FALSE]

SentimentReplies ==
    {POSITIVE_REPLY, NEGATIVE_REPLY, MIXED_REPLY, BARE_REPLY, UNQUOTED_REPLY, PROSE_REPLY}

SentimentResult(sentiment, confidence) == [sentiment |-> sentiment, confidence |-> confidence]

POSITIVE_WORDS == {"thank", "great", "good", "perfect", "sure", "yes", "okay", "fine"}
NEGATIVE_WORDS == {"problem", "issue", "late", "delay", "stuck", "emergency", "accident"}

\* CallAnalysisService._keyword_sentiment_fallback
KeywordSentimentFallback(transcript) ==
    LET positive_count == Cardinality(POSITIVE_WORDS \cap transcript.contains)
        negative_count == Cardinality(NEGATIVE_WORDS \cap transcript.contains)
    IN  IF positive_count > negative_count THEN SentimentResult("positive", 60)
        ELSE IF negative_count > positive_count THEN SentimentResult("negative", 60)
        ELSE SentimentResult("neutral", 50)

\* CallAnalysisService._analyze_sentiment
AnalyzeSentiment(transcript, provider, groq, openai) ==
    LET response == GenerateResponse(provider, groq, openai)
        found == SentimentJson(response.content)
    IN  IF response.raised THEN SentimentResult("neutral", 50)
        ELSE IF found.match
        THEN IF found.raised THEN SentimentResult("neutral", 50)
             ELSE SentimentResult(DictGet(found.value, "sentiment", "neutral"),
                                  DictGet(found.value, "confidence", 50))
        ELSE KeywordSentimentFallback(transcript)

\* the score returned as computed
Clamp_None(score) == score

\* max(0.0, min(10.0, round(score, 1))), on tenths: every term of the score
\* is a whole number of tenths, which round(score, 1) returns as it is
Clamp(score) == IF score < 0 THEN 0 ELSE IF score > 100 THEN 100 ELSE score

\* CallAnalysisService._calculate_quality_score
CalculateQualityScore(history, sr, sentiment_result) ==
    LET msg_count == Len(history)
        goal == IF Truthy(sr)
                THEN (IF Captured(sr, "status") THEN 20 ELSE 0)
                     + (IF Captured(sr, "eta") THEN 10 ELSE 0)
                ELSE 0
        mood == IF sentiment_result.sentiment = "positive" THEN 15
                ELSE IF sentiment_result.sentiment = "negative" THEN 0 - 10
                ELSE 0
        length == IF history # <<>>
                  THEN IF 5 <= msg_count /\ msg_count <= 10 THEN 10
                       ELSE IF msg_count < 3 THEN 0 - 5
                       ELSE IF msg_count > 15 THEN 0 - 5
                       ELSE 0
                  ELSE 0
        emergency == IF Truthy(sr) /\ Flagged(sr, "emergency")
                     THEN 5 ELSE 0
    IN  Clamp(50 + goal + mood + length + emergency)

\* _check_goal_achievement reading the emergency flag for the emergency type
CheckGoalAchievement_Flag(sr) ==
    /\ Truthy(sr)
    /\ Captured(sr, "status") \/ Flagged(sr, "emergency")

\* CallAnalysisService._check_goal_achievement
CheckGoalAchievement(sr) ==
    IF ~Truthy(sr) THEN FALSE
    ELSE LET has_status == Captured(sr, "status")
             has_emergency_info == Captured(sr, "emergency_type")
         IN  has_status \/ has_emergency_info

\* replies of the model to the summary prompt
SUMMARY_REPLY == "Driver is delayed by traffic, new ETA 5pm."
PADDED_REPLY == "  Driver is delayed by traffic, new ETA 5pm.  "
LONG_REPLY == "The driver reported a delay caused by heavy traffic on the interstate, confirmed the load is secure, gave a new estimated arrival time of five in the afternoon, acknowledged the proof of delivery reminder and said they would call back from the dock."
LONG_REPLY_CUT == "The driver reported a delay caused by heavy traffic on the interstate, confirmed the load is secure, gave a new estimated arrival time of five in the afternoon, acknowledged the proof of delivery r..."

SummaryReplies == {"", SUMMARY_REPLY, PADDED_REPLY, LONG_REPLY}

\* str.strip on the replies to the summary prompt
Strip(content) == IF content = PADDED_REPLY THEN SUMMARY_REPLY ELSE content

\* len(summary) > 200
OverLong(summary) == summary = LONG_REPLY

\* summary[:197] + "..."
Truncate(summary) == IF summary = LONG_REPLY THEN LONG_REPLY_CUT ELSE summary

\* CallAnalysisService._generate_summary
GenerateSummary(provider, groq, openai) ==
    LET response == GenerateResponse(provider, groq, openai)
        stripped == Strip(response.content)
        summary == IF OverLong(stripped) THEN Truncate(stripped) ELSE stripped
    IN  IF response.raised THEN "Call completed."
        ELSE IF summary # "" THEN summary ELSE "Call completed successfully."

\* replies of the model to the topics prompt
TOPICS_REPLY == "[\"delay\", \"traffic\"]"
MANY_TOPICS_REPLY == "[\"delay\", \"traffic\", \"eta\", \"location\", \"weather\", \"delivery\"]"
UNQUOTED_TOPICS_REPLY == "[delay, traffic]"

TopicsReplies == {TOPICS_REPLY, MANY_TOPICS_REPLY, UNQUOTED_TOPICS_REPLY, PROSE_REPLY}

\* re.search(r'\[.*?\]', content, re.DOTALL) followed by json.loads of the
\* match, on the replies to the topics prompt
TopicsJson(content) ==
    CASE content = TOPICS_REPLY ->
           [match |-> TRUE, raised |-> FALSE, value |-> <<"delay", "traffic">>]
      [] content = MANY_TOPICS_REPLY ->
           [match |-> TRUE, raised |-> FALSE,
            value |-> <<"delay", "traffic", "eta", "location", "weather", "delivery">>]
      [] content = UNQUOTED_TOPICS_REPLY -> [match |-> TRUE, raised |-> TRUE]
      [] OTHER -> [match |-> FALSE]

\* topics[:5]
FirstFive(topics) == SubSeq(topics, 1, IF Len(topics) < 5 THEN Len(topics) ELSE 5)

\* topic_keywords, in the order the dict is iterated
TOPIC_KEYWORDS ==
    << [topic |-> "delay", keywords |-> {"delay", "late", "behind"}],
       [topic |-> "traffic", keywords |-> {"traffic", "congestion", "jam"}],
       [topic |-> "location", keywords |-> {"location", "where", "mile marker"}],
       [topic |-> "eta", keywords |-> {"eta", "arrive", "time"}],
       [topic |-> "emergency", keywords |-> {"emergency", "accident", "breakdown"}],
       [topic |-> "delivery", keywords |-> {"deliver", "unload", "dock"}],
       [topic |-> "weather", keywords |-> {"weather", "rain", "snow"}] >>

\* CallAnalysisService._keyword_topic_fallback
KeywordTopicFallback(transcript) ==
    LET Hit(entry) == AnyIn(entry.keywords, transcript)
        hits == SelectSeq(TOPIC_KEYWORDS, Hit)
    IN  FirstFive([i \in 1..Len(hits) |-> hits[i].topic])

\* CallAnalysisService._extract_key_topics
ExtractKeyTopics(transcript, provider, groq, openai) ==
    LET response == GenerateResponse(provider, groq, openai)
        found == TopicsJson(response.content)
    IN  IF response.raised THEN <<>>
        ELSE IF found.match
        THEN IF found.raised THEN <<>> ELSE FirstFive(found.value)
        ELSE KeywordTopicFallback(transcript)

\* CallAnalysisService._assess_cooperation
AssessCooperation(history, sentiment_result) ==
    LET user_messages == SelectSeq(history, LAMBDA m : m.role = "user")
        sentiment == sentiment_result.sentiment
    IN  IF history = <<>> THEN "unknown"
        ELSE IF Len(user_messages) < 2 THEN "low"
        ELSE IF sentiment = "positive" /\ Len(user_messages) >= 3 THEN "high"
        ELSE IF sentiment = "negative" THEN "low"
        ELSE "medium"

\* a history entry is a dict with a role and a content; anything else the
\* caller passes (a bare string, say) is written [nondict |-> its text]
IsDict(m) == "nondict" \notin DOMAIN m

\* _assess_cooperation reads m.get("role") of every entry of a non-empty
\* history outside any try block of its own: an entry that is not a dict
\* raises AttributeError
AssessCooperationRaises(history) ==
    history # <<>> /\ \E i \in 1..Len(history) : ~IsDict(history[i])

ATTRIBUTE_ERROR == "'str' object has no attribute 'get'"

AnalysisFailed_Neutral(message) ==
    [sentiment |-> "neutral", sentiment_confidence |-> 0, quality_score |-> 0,
     summary |-> "Analysis failed", key_topics |-> <<>>, goal_achieved |-> FALSE,
     cooperation_level |-> "unknown", error |-> message]

\* the result of analyze_call's except branch
AnalysisFailed(message) ==
    [sentiment |-> "unknown", sentiment_confidence |-> 0, quality_score |-> 0,
     summary |-> "Analysis failed", key_topics |-> <<>>, goal_achieved |-> FALSE,
     cooperation_level |-> "unknown", error |-> message]

\* CallAnalysisService.analyze_call. Each of the three model calls gets its
\* own pair of client behaviours. The sentiment, summary and topic analyses
\* absorb their own failures; the cooperation assessment, the last step of
\* the try block, is the one that raises into analyze_call's except branch.
AnalyzeCall(history, transcript, sr, provider, sentiment_llm, summary_llm, topics_llm) ==
    LET sentiment_result == AnalyzeSentiment(transcript, provider, sentiment_llm, sentiment_llm)
    IN  IF AssessCooperationRaises(history) THEN AnalysisFailed(ATTRIBUTE_ERROR)
        ELSE
        [sentiment |-> sentiment_result.sentiment,
         sentiment_confidence |-> sentiment_result.confidence,
         quality_score |-> CalculateQualityScore(history, sr, sentiment_result),
         summary |-> GenerateSummary(provider, summary_llm, summary_llm),
         key_topics |-> ExtractKeyTopics(transcript, provider, topics_llm, topics_llm),
         goal_achieved |-> CheckGoalAchievement(sr),
         cooperation_level |-> AssessCooperation(history, sentiment_result),
         analysis_timestamp |-> None]

\* a conversation history of n messages, as the session builds it: the
\* driver's message, then the agent's reply
History(n) ==
    [i \in 1..n |-> IF i % 2 = 1
                    THEN [role |-> "user", content |-> "running late, stuck in traffic"]
                    ELSE [role |-> "assistant", content |-> "Copy that."]]

HistoryLengths == {0, 1, 2, 3, 4, 5, 10, 11, 15, 16}

\* a history with an entry that is not a dict
MALFORMED_HISTORY ==
    <<[role |-> "user", content |-> "running late, stuck in traffic"],
      [nondict |-> "Agent: Copy that."]>>

AnalysisHistories == {History(n) : n \in HistoryLengths} \cup {MALFORMED_HISTORY}

\* stored records a finished call may have
AnalysisRecords ==
    { EmptyDict,
      StatusRecord(EmptyDict, [status |-> "delayed"]),
      StatusRecord(EmptyDict, [status |-> "arrived", eta |-> "5pm"]),
      EmergencyRecord(EmptyDict, EmptyDict),
      EmergencyRecord(EmptyDict, [emergency_type |-> "accident",
                                  location |-> "I-40 mile marker 212"]),
      EmergencyRecord(StatusRecord(EmptyDict, [status |-> "arrived", eta |-> "5pm"]),
                      [emergency_type |-> "other"]),
      AppendFallback(EmptyDict, 1, "groq", "openai"),
      DictSet([status |-> "delayed", eta |-> None], "data_source", "webhook_postprocessing"),
      DictSet(ProcessTranscript(DELAY_TRANSCRIPT), "data_source", "webhook_postprocessing"),
      DictSet(ProcessTranscript(ACCIDENT_TRANSCRIPT), "data_source", "webhook_postprocessing") }

AnalysisTranscripts == {EMPTY_TRANSCRIPT, DELAY_TRANSCRIPT, ACCIDENT_TRANSCRIPT}

\* what the clients do on a prompt with these replies: fail, or return one
LlmOutcomes(replies) ==
    {ProviderFailure} \cup {Completion(content, NoFunctionCall) : content \in replies}

\* one analyze_call call, for any history, transcript and stored record and
\* any behaviour of the model; analyze_call keeps nothing between calls, so
\* the calls are all explored from the initial state
Analyze ==
    /\ ~analysis.called
    /\ \E history \in AnalysisHistories, transcript \in AnalysisTranscripts,
          sr \in AnalysisRecords,
          sentiment_llm \in LlmOutcomes(SentimentReplies),
          summary_llm \in LlmOutcomes(SummaryReplies),
          topics_llm \in LlmOutcomes(TopicsReplies) :
         analysis' = [called |-> TRUE,
                      conversation_history |-> history,
                      raw_transcript |-> transcript,
                      structured_results |-> sr,
                      sentiment_llm |-> sentiment_llm,
                      topics_llm |-> topics_llm,
                      result |-> AnalyzeCall(history, transcript, sr, "groq",
                                             sentiment_llm, summary_llm, topics_llm)]
    /\ UNCHANGED <<call_vars, session_vars, webhook_vars, gen, extracted, postprocessed, history_writes>>

\* keywords of the extractor's tables a transcript may contain; none of the
\* tables' keywords is a substring of another of these
ExtractorKeywords ==
    {"late", "stuck", "traffic", "congestion", "jam", "waiting", "driving", "here",
     "rain", "accident"}

ExtractorTranscripts ==
    {Transcript("<transcript>", keywords, None, None) : keywords \in SUBSET ExtractorKeywords}
    \cup {EMPTY_TRANSCRIPT, DELAY_TRANSCRIPT, ACCIDENT_TRANSCRIPT}

\* one process_transcript call; the processor keeps nothing between calls
Extract ==
    /\ ~extracted.called
    /\ \E transcript \in ExtractorTranscripts :
         extracted' = [called |-> TRUE, transcript |-> transcript,
                       result |-> ProcessTranscript(transcript)]
    /\ UNCHANGED <<call_vars, session_vars, webhook_vars, gen, analysis, postprocessed, history_writes>>

\* -------------------------------------------------------- specifications
\* the session's inputs in the specification of the call's whole life
LifecycleEvents(n) ==
    {[interaction_type |-> "response_required", response_id |-> n,
      last_user_message |-> "running late, stuck in traffic"]}

LifecycleCompletions ==
    { Completion("Copy that.", NoFunctionCall),
      Completion("", Call("update_delivery_status", JsonObject([status |-> "delayed"]))),
      Completion("", Call("report_emergency",
                          JsonObject([emergency_type |-> "accident",
                                      location |-> "I-40 mile marker 212"]))) }

LifecycleReceiveEvent == ReceiveEventFrom([n \in 1..MaxTurns |-> LifecycleEvents(n)])

LifecycleRespond == RespondWith(LifecycleCompletions, {TRUE})

\* completions whose function call has arguments outside the declared
\* schema, arguments that are not a JSON object, or a name outside FUNCTIONS
ExecutorCompletions ==
    { Completion("", Call("update_delivery_status", JsonObject([status |-> "delayed"]))),
      Completion("", Call("update_delivery_status", JsonObject([status |-> "lost"]))),
      Completion("", Call("update_delivery_status", JsonObject([eta |-> "5pm"]))),
      Completion("", Call("update_delivery_status", JsonInvalid)),
      Completion("", Call("update_delivery_status", JsonScalar)),
      Completion("", Call("report_emergency",
                          JsonObject([emergency_type |-> "fire", location |-> "US-287"]))),
      Completion("", Call("report_emergency", JsonObject([location |-> "US-287"]))),
      Completion("", Call("report_emergency", JsonObject([emergency_type |-> "accident"]))),
      Completion("", Call("report_emergency", JsonInvalid)),
      Completion("", Call("report_emergency", JsonScalar)),
      Completion("", Call("end_conversation", JsonInvalid)),
      Completion("", Call("end_conversation", JsonScalar)),
      Completion("Copy that.", Call(UnknownFunction, JsonObject([status |-> "delayed"]))),
      Completion("", Call(UnknownFunction, JsonScalar)),
      Completion("Copy that.", Call(UnknownFunction, JsonInvalid)) }

ExecutorReceiveEvent == ReceiveEventFrom([n \in 1..MaxTurns |-> LifecycleEvents(n)])

ExecutorRespond == RespondWith(ExecutorCompletions, {TRUE})

\* the session alone
Next == Connect \/ PeerDisconnect \/ ReceiveEvent \/ Respond
Spec == Init /\ [][Next]_vars

\* the session and the lifecycle webhook requests for its call, interleaved
LifecycleNext == Connect \/ LifecycleReceiveEvent \/ LifecycleRespond \/ RetellWebhook
LifecycleInit ==
    /\ Init
    /\ setting_row = NoRow
    /\ agent.present => agent.initial_message = ""
LifecycleSpec == LifecycleInit /\ [][LifecycleNext]_vars

\* the session with function calls of every kind of argument payload
ExecutorNext == Connect \/ ExecutorReceiveEvent \/ ExecutorRespond
ExecutorSpec == LifecycleInit /\ [][ExecutorNext]_vars

\* generate_response on its own
OrchestratorSpec == Init /\ [][Generate]_vars

\* analyze_call on its own
AnalysisInit ==
    /\ Init
    /\ call_exists
    /\ agent.present /\ agent.initial_message = ""
    /\ setting_row = NoRow
AnalysisSpec == AnalysisInit /\ [][Analyze]_vars

\* the post-call extraction on its own
PostProcessSpec == Init /\ [][PostProcess]_vars

\* process_transcript on its own
ExtractorSpec == AnalysisInit /\ [][Extract]_vars

\* ================================================================ claims
\* ---- helpers of the statements
LastSent == sent[Len(sent)]

LastWasTurn == last.kind = "turn"

LastCalled(name) ==
    /\ LastWasTurn
    /\ IsFunctionCall(last.function_call)
    /\ last.function_call.name = name

\* the arguments of the last turn's function call, when they are a JSON object
LastArguments == last.function_call.arguments.value

ValidEmergencyArguments(text) ==
    /\ text.json = "object"
    /\ {"emergency_type", "location"} \subseteq DOMAIN text.value
    /\ text.value.emergency_type \in EmergencyTypeEnum

\* response_ids of the response_required events read so far, in order
RequestIds ==
    LET requests == SelectSeq(received, IsResponseRequired)
    IN  [i \in 1..Len(requests) |-> requests[i].response_id]

\* response_ids of the turn-responses sent so far (all but the opening line)
ResponseIds == [i \in 1..(Len(sent) - 1) |-> sent[i + 1].response_id]

\* ---- C1
\* C1: on a turn where the model calls report_emergency with valid arguments
\* and handling the turn does not raise, the record stored after the turn has
\* emergency = TRUE, the emergency_type supplied and data_source =
\* websocket_realtime, and the turn-response sent has end_call = TRUE and
\* ends the session. (A turn on which handling raises is C2's case.)
C1_EmergencyEndsAndStores ==
    (LastCalled("report_emergency") /\ ValidEmergencyArguments(last.function_call.arguments)
        /\ ~last.raised)
    => /\ Has(structured_results, "emergency", TRUE)
       /\ Has(structured_results, "emergency_type", LastArguments.emergency_type)
       /\ Has(structured_results, "data_source", "websocket_realtime")
       /\ pc = "ended"
       /\ last.delivered =>
            /\ LastSent.response_id = last.response_id
            /\ LastSent.end_call = TRUE

C1_Witness ==
    /\ LastCalled("report_emergency")
    /\ ValidEmergencyArguments(last.function_call.arguments)
    /\ ~last.raised /\ last.delivered
    /\ Len(sent) = 3
    /\ Has(structured_results, "emergency_type", "accident")

\* ---- C2
\* C2: a report_emergency call ends the conversation even when handling the
\* same turn raises: the turn-response sent for the turn has end_call = TRUE
\* and the session is ended.
C2_EmergencyEndsDespiteError ==
    (LastCalled("report_emergency") /\ last.delivered)
    => /\ LastSent.response_id = last.response_id
       /\ LastSent.end_call = TRUE
       /\ pc = "ended"

\* ---- C3
\* C3: the turn-responses sent carry, in order, the response_ids of the
\* response_required events read: one response per event once its turn is
\* over, none before it, and an event is left unanswered only when the socket
\* went away during its turn.
C3_OneResponsePerRequestInOrder ==
    /\ Len(ResponseIds) <= Len(RequestIds)
    /\ \A i \in 1..Len(ResponseIds) : ResponseIds[i] = RequestIds[i]
    /\ \A i \in 2..Len(sent) : sent[i].content_complete = TRUE
    /\ pc = "awaiting" => Len(ResponseIds) = Len(RequestIds)
    /\ pc = "responding" => Len(ResponseIds) = Len(RequestIds) - 1
    /\ pc = "ended" =>
         \/ Len(ResponseIds) = Len(RequestIds)
         \/ Len(ResponseIds) = Len(RequestIds) - 1 /\ ~peer_connected

C3_Witness ==
    /\ Len(RequestIds) = 2
    /\ Len(received) = 2
    /\ ResponseIds = <<1, 2>>
    /\ sent[2].content = APOLOGY
    /\ sent[3].content = STATUS_REPLY

\* ---- C4
\* C4: the first event a session sends is the opening line, with response_id
\* 0, content_complete TRUE and end_call FALSE, and nothing is read from the
\* socket before it is sent.
C4_OpeningLineFirst ==
    /\ Len(sent) > 0 =>
         /\ sent[1].response_id = 0
         /\ sent[1].content = IF agent.initial_message # "" THEN agent.initial_message
                              ELSE DEFAULT_INITIAL_MESSAGE
         /\ sent[1].content_complete = TRUE
         /\ sent[1].end_call = FALSE
    /\ Len(received) > 0 => Len(sent) > 0

C4_Witness ==
    /\ Len(sent) = 1
    /\ Len(received) = 1
    /\ sent[1].content = DEFAULT_INITIAL_MESSAGE

\* ---- C5
\* C5: when both providers fail on a turn, or handling the turn raises
\* otherwise, and the socket is usable, exactly one apology is sent for the
\* turn, with the turn's response_id, content_complete TRUE and end_call
\* FALSE; the session is not ended by it and takes the next event with the
\* should-end flag clear.
C5_ApologyKeepsSession ==
    (LastWasTurn /\ (last.llm_raised \/ last.raised) /\ last.delivered)
    => /\ Len(ResponseIds) = Len(RequestIds) \/ pc = "responding"
       /\ LastSent = [response_id |-> last.response_id, content |-> APOLOGY,
                      content_complete |-> TRUE, end_call |-> FALSE]
       /\ should_end_call = FALSE
       /\ pc \in {"awaiting", "responding"} \/ (pc = "ended" /\ ~peer_connected)

C5_Witness ==
    /\ Len(sent) = 3
    /\ sent[2].content = APOLOGY
    /\ sent[3].content = STATUS_REPLY
    /\ pc = "awaiting"

\* ---- C6
\* C6: one generate_response call calls the client of the primary provider
\* first and once; it calls the other client, once, exactly when that first
\* call failed; it calls nothing else, and it fails exactly when both calls
\* failed. (For a provider name that is neither groq nor openai the client
\* called first is the one the code's else branch picks; see C7.)
C6_FailoverOnce ==
    gen.called =>
      LET r == gen.result
          failed(i) == Outcome(r.invoked[i], gen.groq, gen.openai).raised
      IN  /\ Len(r.invoked) \in {1, 2}
          /\ gen.primary_provider \in Providers => r.invoked[1] = gen.primary_provider
          /\ r.invoked[1] = ClientFor(gen.primary_provider)
          /\ Len(r.invoked) = 2 <=> failed(1)
          /\ Len(r.invoked) = 2 => r.invoked[2] \in Providers \ {r.invoked[1]}
          /\ r.raised <=> (Len(r.invoked) = 2 /\ failed(1) /\ failed(2))

C6_Witness ==
    /\ gen.called
    /\ gen.primary_provider = "openai"
    /\ gen.result.invoked = <<"openai", "groq">>
    /\ ~gen.result.raised

SessionWroteFacts ==
    \E i \in DOMAIN conversation_history :
        conversation_history[i].content \in {STATUS_REPLY, EMERGENCY_REPLY}

\* C8: for a call whose session wrote no structured facts, the stored
\* data_source is never websocket_realtime, after any sequence of lifecycle
\* webhook requests.
C8_NoRealtimeProvenanceWithoutFacts ==
    ~SessionWroteFacts => ~Has(structured_results, "data_source", "websocket_realtime")

\* ---- C9
\* the stored record holds a status or emergency record written by the session
RealtimeFactStored ==
    /\ SessionWroteFacts
    /\ Has(structured_results, "data_source", "websocket_realtime")
    /\ {"status", "emergency"} \cap DOMAIN structured_results # {}

\* C9: a call_ended request with a transcript, for a call whose stored record
\* holds a realtime fact, sets data_source = websocket_realtime and runs
\* neither the model extraction nor the heuristic extractor, whether or not
\* the fallback log is stored too.
C9_RealtimeFactsSkipExtraction ==
    [][ ( /\ webhook_count' = webhook_count + 1
          /\ last_webhook'.event = "call_ended"
          /\ last_webhook'.found
          /\ raw_transcript'.text # ""
          /\ RealtimeFactStored )
        => ( /\ Has(structured_results', "data_source", "websocket_realtime")
             /\ ~last_webhook'.llm_called
             /\ ~last_webhook'.heuristic_called ) ]_vars

\* ---- C10
\* C10: on a turn where the model calls update_delivery_status with only
\* status = delayed and handling the turn does not raise, the record stored
\* after the turn has status = delayed and data_source = websocket_realtime,
\* the turn-response sent has end_call = FALSE, and the session goes on
\* (it ends later only by the socket going away); on any turn of the session.
C10_DelayedStatusStored ==
    ( /\ LastCalled("update_delivery_status")
      /\ last.function_call.arguments = JsonObject([status |-> "delayed"])
      /\ ~last.raised )
    => /\ Has(structured_results, "status", "delayed")
       /\ Has(structured_results, "data_source", "websocket_realtime")
       /\ should_end_call = FALSE
       /\ last.delivered =>
            /\ LastSent.response_id = last.response_id
            /\ LastSent.content = STATUS_REPLY
            /\ LastSent.end_call = FALSE
       /\ pc = "ended" => ~peer_connected

\* the delayed status arrives on the second turn, over a record the first
\* turn stored
C10_Witness ==
    /\ LastCalled("update_delivery_status")
    /\ last.function_call.arguments = JsonObject([status |-> "delayed"])
    /\ ~last.raised /\ last.delivered
    /\ last.response_id = 2
    /\ Has(structured_results, "eta", "5pm")
    /\ Has(structured_results, "status", "delayed")
    /\ pc = "awaiting"

\* ---- C11
FallbackLog(sr) == IF "llm_fallbacks" \in DOMAIN sr THEN sr["llm_fallbacks"] ELSE <<>>

IsPrefix(s, t) == Len(s) <= Len(t) /\ SubSeq(t, 1, Len(s)) = s

\* the step finishes a response_required turn
TurnStep == pc = "responding" /\ pc' # pc

\* C11: every step of the session and of the lifecycle webhook keeps the
\* entries of the fallback log; a turn whose model result reported
\* fallback_used adds exactly one entry at the end, every other step adds
\* none.
C11_FallbackLogAppendOnly ==
    [][ /\ IsPrefix(FallbackLog(structured_results), FallbackLog(structured_results'))
        /\ Len(FallbackLog(structured_results')) =
             Len(FallbackLog(structured_results))
             + (IF TurnStep /\ last'.fallback_used THEN 1 ELSE 0) ]_vars

\* ---- C12
\* C12: when the call is unknown or has no agent configuration, the session
\* sends nothing, reads nothing, and the call record stays as it was; the
\* handler is either not started or over.
C12_PreconditionAbort ==
    (~call_exists \/ ~agent.present)
    => /\ pc \in {"connecting", "ended"}
       /\ sent = <<>>
       /\ received = <<>>
       /\ conversation_history = <<>>
       /\ status = "ringing"
       /\ raw_transcript = EMPTY_TRANSCRIPT
       /\ structured_results = EmptyDict

C12_Witness == call_exists /\ ~agent.present /\ pc = "ended"

\* ---- C13
\* C13: a turn-response with end_call = TRUE is the last event the session
\* sends, the request it answers is the last event the session read, and the
\* handler is over with its database session closed.
C13_EndCallIsLast ==
    \A i \in DOMAIN sent :
        sent[i].end_call
        => /\ i = Len(sent)
           /\ pc = "ended"
           /\ ~db_open
           /\ received # <<>>
           /\ received[Len(received)].interaction_type = "response_required"
           /\ received[Len(received)].response_id = sent[i].response_id

\* the session ended on its first turn, with turns to spare
C13_Witness ==
    /\ sent # <<>>
    /\ LastSent.end_call
    /\ Len(received) = 1
    /\ Len(received) < MaxTurns
    /\ pc = "ended"

\* ---- C14
\* C14: reading an event whose interaction_type is not response_required
\* sends nothing, leaves the history, the stored record and the should-end
\* flag as they were, and leaves the handler waiting for the next event.
C14_OtherEventsIgnored ==
    [][ ( /\ Len(received') = Len(received) + 1
          /\ received'[Len(received')].interaction_type # "response_required" )
        => ( /\ UNCHANGED <<sent, conversation_history, structured_results, should_end_call>>
             /\ pc' = "awaiting" ) ]_vars

\* an update_only event was read after a turn was answered
C14_Witness ==
    /\ Len(received) = 2
    /\ received[1].interaction_type = "response_required"
    /\ received[2].interaction_type = "update_only"
    /\ Len(sent) = 2
    /\ pc = "awaiting"

\* ---- C15
\* C15: a call_ended request for a call that an earlier call_ended request
\* completed and ran the extraction for runs neither the model extraction
\* nor the heuristic extractor and leaves the stored record as it was.
C15_ExtractionOnce ==
    [][ ( /\ webhook_count' = webhook_count + 1
          /\ last_webhook'.event = "call_ended"
          /\ last_webhook'.found
          /\ status = "completed"
          /\ extractions >= 1 )
        => ( /\ ~last_webhook'.llm_called
             /\ ~last_webhook'.heuristic_called
             /\ structured_results' = structured_results ) ]_vars

\* ---- C16
\* C16: a call_analyzed request leaves every key of the stored record other
\* than retell_analysis in place with its value, and adds no key other than
\* retell_analysis.
C16_AnalyzedTouchesOneKey ==
    [][ ( /\ webhook_count' = webhook_count + 1
          /\ last_webhook'.event = "call_analyzed" )
        => ( /\ \A k \in DOMAIN structured_results \ {"retell_analysis"} :
                  /\ k \in DOMAIN structured_results'
                  /\ structured_results'[k] = structured_results[k]
             /\ DOMAIN structured_results' \subseteq
                  DOMAIN structured_results \cup {"retell_analysis"} ) ]_vars

\* the platform's analysis was merged into a record the session had written
C16_Witness ==
    /\ last_webhook.event = "call_analyzed"
    /\ last_webhook.found
    /\ "retell_analysis" \in DOMAIN structured_results
    /\ Has(structured_results, "status", "delayed")
    /\ Has(structured_results, "data_source", "websocket_realtime")

\* ---- C17
\* C17: the quality_score of every analysis lies between 0 and 10 (0 and
\* 100 tenths), for every stored record, sentiment and history length.
C17_QualityScoreInRange ==
    analysis.called
    => /\ analysis.result.quality_score >= 0
       /\ analysis.result.quality_score <= 100

\* every bonus applies: the sum is 11.0 and the score is 10
C17_Witness ==
    /\ analysis.called
    /\ Captured(analysis.structured_results, "status")
    /\ Captured(analysis.structured_results, "eta")
    /\ Flagged(analysis.structured_results, "emergency")
    /\ analysis.result.sentiment = "positive"
    /\ Len(analysis.conversation_history) = 5
    /\ analysis.result.quality_score = 100

\* ---- C18
\* an analysis that ran to the end of analyze_call's try block
AnalysisCompleted == analysis.called /\ "error" \notin DOMAIN analysis.result

\* the score the formula gives, in tenths, for a turn count n
FormulaScore(sr, sentiment, n) ==
    LET sum == 50
               + (IF Captured(sr, "status") THEN 20 ELSE 0)
               + (IF Captured(sr, "eta") THEN 10 ELSE 0)
               + (IF sentiment = "positive" THEN 15 ELSE 0)
               - (IF sentiment = "negative" THEN 10 ELSE 0)
               + (IF n >= 5 /\ n <= 10 THEN 10 ELSE 0)
               - (IF n < 3 THEN 5 ELSE 0)
               - (IF n > 15 THEN 5 ELSE 0)
               + (IF Flagged(sr, "emergency") THEN 5 ELSE 0)
    IN  IF sum < 0 THEN 0 ELSE IF sum > 100 THEN 100 ELSE sum

\* C18: the quality_score of every analysis equals the formula: 5.0, +2.0
\* for a status, +1.0 for an ETA, +1.5 / -1.0 for positive / negative
\* sentiment, +1.0 for 5..10 turns, -0.5 for fewer than 3, -0.5 for more than
\* 15, +0.5 for an emergency, clamped to [0, 10]; a turn count of 0 included.
C18_QualityScoreFormula ==
    AnalysisCompleted
    => analysis.result.quality_score =
         FormulaScore(analysis.structured_results, analysis.result.sentiment,
                      Len(analysis.conversation_history))

\* ---- C19
\* C19: goal_achieved is TRUE exactly when the stored record holds a
\* non-empty status or a non-empty emergency_type; it is FALSE for an empty
\* or absent record. The analyses are those that ran to the end of the try
\* block.
C19_GoalAchieved ==
    AnalysisCompleted
    => LET sr == analysis.structured_results
       IN  /\ analysis.result.goal_achieved
               <=> \E key \in {"status", "emergency_type"} \cap DOMAIN sr :
                       sr[key] \notin {"", None}
           /\ sr = EmptyDict => ~analysis.result.goal_achieved

\* the goal is achieved by the emergency type alone
C19_Witness ==
    /\ analysis.called
    /\ analysis.result.goal_achieved
    /\ "status" \notin DOMAIN analysis.structured_results
    /\ "emergency" \notin DOMAIN analysis.structured_results
    /\ Captured(analysis.structured_results, "emergency_type")

\* ---- C20
\* C20: every analysis has a sentiment among positive, negative, neutral
\* and unknown, and a sentiment_confidence between 0 and 1 (0 and 100
\* hundredths), whatever the model replies.
C20_SentimentWellFormed ==
    analysis.called
    => /\ analysis.result.sentiment \in {"positive", "negative", "neutral", "unknown"}
       /\ analysis.result.sentiment_confidence >= 0
       /\ analysis.result.sentiment_confidence <= 100

\* ---- C21
AnalysisResultFields ==
    {"sentiment", "sentiment_confidence", "quality_score", "summary", "key_topics",
     "goal_achieved", "cooperation_level"}

\* C21: analyze_call always returns a result holding every field of an
\* AnalysisResult, whatever the model does (all three model calls may fail);
\* a run in which a step raises out of the try block returns sentiment
\* unknown, confidence 0, quality_score 0, goal_achieved FALSE and
\* cooperation_level unknown together with an error marker, and no other
\* run carries the marker.
C21_AnalyzeCallTotal ==
    analysis.called
    => LET result == analysis.result
           failed == \E i \in 1..Len(analysis.conversation_history) :
                         "role" \notin DOMAIN analysis.conversation_history[i]
       IN  /\ AnalysisResultFields \subseteq DOMAIN result
           /\ failed <=> "error" \in DOMAIN result
           /\ failed => /\ result.sentiment = "unknown"
                        /\ result.sentiment_confidence = 0
                        /\ result.quality_score = 0
                        /\ ~result.goal_achieved
                        /\ result.cooperation_level = "unknown"

\* the cooperation assessment raised on a history entry that is not a dict,
\* for a call whose record holds a status
C21_Witness ==
    /\ analysis.called
    /\ analysis.conversation_history = MALFORMED_HISTORY
    /\ Captured(analysis.structured_results, "status")
    /\ "error" \in DOMAIN analysis.result
    /\ analysis.result.summary = "Analysis failed"

\* ---- C22
\* C22: process_transcript on a transcript that contains one of the
\* delayed-status keywords late, stuck, traffic and one of the traffic
\* keywords, no emergency keyword and no driving-status keyword returns
\* driver_status "Delayed" and the delay_reason "Heavy Traffic".
C22_DelayedByTraffic ==
    extracted.called
    => LET transcript == extracted.transcript
       IN  (/\ AnyIn({"late", "stuck", "traffic"}, transcript)
            /\ AnyIn({"traffic", "congestion", "jam"}, transcript)
            /\ ~AnyIn(EMERGENCY_KEYWORDS, transcript)
            /\ ~AnyIn(STATUS_KEYWORDS[1].keywords, transcript))
           => /\ extracted.result.driver_status = "Delayed"
              /\ extracted.result.delay_reason = "Heavy Traffic"

\* the scenario's transcript, which also holds the arrived keyword "here"
\* (in "there")
C22_Witness ==
    /\ extracted.called
    /\ extracted.transcript = DELAY_TRANSCRIPT
    /\ extracted.result.driver_status = "Delayed"
    /\ extracted.result.delay_reason = "Heavy Traffic"

\* ---- C23
\* C23: once a session that took at least one turn has ended, by the end of
\* the call, a disconnect or an error, its full conversation history has
\* been written to the database exactly once.
C23_HistoryFlushedOnce ==
    (pc = "ended" /\ conversation_history # <<>>)
    => history_writes = <<conversation_history>>

\* ---- C24
\* C24: the first entry of every session's conversation history is the
\* agent's opening line, with the agent's role, ahead of any entry of the
\* driver.
C24_HistoryStartsWithOpeningLine ==
    conversation_history # <<>>
    => /\ conversation_history[1].role = "assistant"
       /\ conversation_history[1].content = sent[1].content

\* ---- C25
\* C25: the session reads an event only when no turn is in progress: every
\* response_required event read before has had its turn-response, reply or
\* apology, sent; so at most one turn is in progress at any time.
C25_OneTurnAtATime ==
    [][ Len(received') > Len(received)
        => /\ pc = "awaiting"
           /\ Len(ResponseIds) = Len(RequestIds)
           /\ last.kind = "turn" => last.delivered ]_vars

\* a second turn has started after the first one was answered
C25_Witness ==
    /\ pc = "responding"
    /\ Len(RequestIds) = 2
    /\ Len(ResponseIds) = 1
    /\ last.kind = "turn" /\ last.response_id = 1 /\ last.delivered

\* ---- C26
\* the stored record without the fallback log
FactsOf(sr) == [key \in DOMAIN sr \ {"llm_fallbacks"} |-> sr[key]]

\* the arguments satisfy the schema FUNCTIONS declares for the function
SchemaValid(function_call) ==
    LET text == function_call.arguments
    IN  /\ text.json = "object"
        /\ function_call.name = "update_delivery_status"
             => "status" \in DOMAIN text.value /\ text.value.status \in StatusEnum
        /\ function_call.name = "report_emergency" => ValidEmergencyArguments(text)

\* C26: a turn in which the model calls update_delivery_status or
\* report_emergency with a JSON object that does not satisfy the function's
\* schema (status missing or outside its enum, emergency_type outside its
\* enum, a required argument missing) leaves the facts of
\* structured_results as they were.
C26_InvalidArgumentsRejected ==
    [][ ( /\ TurnStep
          /\ IsFunctionCall(last'.function_call)
          /\ last'.function_call.name \in {"update_delivery_status", "report_emergency"}
          /\ last'.function_call.arguments.json = "object"
          /\ ~SchemaValid(last'.function_call) )
        => FactsOf(structured_results') = FactsOf(structured_results) ]_vars

\* ---- C27
\* the reply each function's branch sets
NormalReply(function_name) ==
    CASE function_name = "update_delivery_status" -> STATUS_REPLY
      [] function_name = "report_emergency" -> EMERGENCY_REPLY
      [] function_name = "end_conversation" -> END_REPLY

\* C27: a turn in which the model calls one of the three functions with an
\* argument payload that is not JSON, or is JSON but not an object, does not
\* raise, and the turn-response sent carries the function's normal reply
\* and not the apology.
C27_UnparseableArgumentsAreEmpty ==
    [][ ( /\ TurnStep
          /\ IsFunctionCall(last'.function_call)
          /\ last'.function_call.name \in FUNCTIONS
          /\ last'.function_call.arguments.json \in {"invalid", "scalar"}
          /\ last'.delivered )
        => /\ ~last'.raised
           /\ sent'[Len(sent')].content = NormalReply(last'.function_call.name) ]_vars

\* ---- C28
\* C28: a turn in which the model calls a function whose name is not one of
\* the three, and which does not raise, leaves the facts of
\* structured_results and the should-end flag as they were, and the
\* turn-response it sends has the orchestrator's reply text as content and
\* the flag as end_call.
C28_UnknownFunctionIgnored ==
    [][ ( /\ TurnStep
          /\ IsFunctionCall(last'.function_call)
          /\ last'.function_call.name \notin FUNCTIONS
          /\ ~last'.raised )
        => /\ FactsOf(structured_results') = FactsOf(structured_results)
           /\ should_end_call' = should_end_call
           /\ last'.delivered
                => /\ sent'[Len(sent')].content = last'.content
                   /\ sent'[Len(sent')].end_call = should_end_call
                   /\ sent'[Len(sent')].response_id = last'.response_id ]_vars

\* an unknown function called with a status, in the turn after a status was
\* stored: the record is the one of the first turn and the reply is the
\* model's text
C28_Witness ==
    /\ LastCalled(UnknownFunction)
    /\ last.function_call.arguments = JsonObject([status |-> "delayed"])
    /\ last.response_id = 2 /\ last.delivered
    /\ LastSent.content = "Copy that."
    /\ pc = "awaiting"
    /\ Has(structured_results, "status", "lost")

\* ---- C29
\* C29: a call_ended request runs the extraction, by the model or by the
\* heuristic extractor, only when the call's session handler is not inside
\* its loop: the handler has returned, or has not started.
C29_ExtractionAfterSession ==
    [][ ( /\ webhook_count' = webhook_count + 1
          /\ last_webhook'.event = "call_ended"
          /\ last_webhook'.llm_called \/ last_webhook'.heuristic_called )
        => pc \in {"connecting", "ended"} ]_vars

\* ---- C30
\* C30: a turn whose socket closed while its model call was outstanding
\* ends the handler (the database session is closed, nothing escapes it),
\* sends nothing, and leaves the facts of structured_results as they were
\* when the socket closed.
C30_PendingResultDiscarded ==
    [][ (TurnStep /\ ~peer_connected)
        => /\ pc' = "ended" /\ ~db_open'
           /\ sent' = sent
           /\ FactsOf(structured_results') = FactsOf(structured_results) ]_vars

\* ---- C31
\* what the model returned to the extraction, after failover
ExtractionReply ==
    GenerateResponse(GetSetting(setting_row, "groq"), postprocessed.groq, postprocessed.openai)

\* C31: the result of a post-call extraction is the arguments of the
\* model's function call when they parse as JSON; else the JSON object
\* embedded in the reply's text when there is one that parses; else the
\* heuristic extractor's output for the transcript. It is the heuristic
\* extractor's output too when both providers fail or the call has no agent
\* configuration. In every case the record stored by call_ended has a
\* data_source, and it is webhook_postprocessing with the result merged in
\* whenever the result is a dict.
C31_ExtractionFirstAvailable ==
    postprocessed.called
    => LET result == postprocessed.result
           reply == ExtractionReply
           arguments == reply.function_call.arguments
           heuristic == ProcessTranscript(postprocessed.transcript)
           sr == postprocessed.structured_results
       IN  /\ IF ~agent.present \/ reply.raised
              THEN result.isdict /\ result.value = heuristic
              ELSE IF IsFunctionCall(reply.function_call) /\ arguments.json # "invalid"
              THEN /\ result.isdict <=> arguments.json = "object"
                   /\ result.isdict => result.value = arguments.value
              ELSE IF reply.content = JSON_REPLY
              THEN result.isdict /\ result.value = [status |-> "delayed", eta |-> None]
              ELSE result.isdict /\ result.value = heuristic
           /\ "data_source" \in DOMAIN postprocessed.stored
           /\ result.isdict
                => postprocessed.stored =
                     DictSet(DictUpdate(sr, result.value), "data_source", "webhook_postprocessing")

\* the function call's arguments do not parse and the reply's text holds a
\* JSON object: the object is the result, merged into a record that held
\* the fallback log
C31_Witness ==
    /\ postprocessed.called
    /\ agent.present
    /\ ~ExtractionReply.raised
    /\ ExtractionReply.fallback_used
    /\ IsFunctionCall(ExtractionReply.function_call)
    /\ ExtractionReply.function_call.arguments = JsonInvalid
    /\ ExtractionReply.content = JSON_REPLY
    /\ postprocessed.structured_results # EmptyDict
    /\ Has(postprocessed.stored, "status", "delayed")
    /\ Has(postprocessed.stored, "data_source", "webhook_postprocessing")

\* ---- C32
\* the sentiment the keyword tally gives for a transcript
TallySentiment(transcript) ==
    LET positive == Cardinality(POSITIVE_WORDS \cap transcript.contains)
        negative == Cardinality(NEGATIVE_WORDS \cap transcript.contains)
    IN  IF positive > negative THEN "positive"
        ELSE IF negative > positive THEN "negative" ELSE "neutral"

\* C32: when the model's reply to the sentiment prompt holds no JSON object,
\* or one that does not parse, the sentiment of the analysis is the one of
\* the keyword tally over the transcript.
C32_UnparsedSentimentUsesTally ==
    ( /\ AnalysisCompleted
      /\ ~analysis.sentiment_llm.raised
      /\ analysis.sentiment_llm.content \in {PROSE_REPLY, UNQUOTED_REPLY} )
    => analysis.result.sentiment = TallySentiment(analysis.raw_transcript)

\* ---- C33
\* the topics of the table with a keyword in the transcript
MatchedTopics(transcript) ==
    {TOPIC_KEYWORDS[i].topic : i \in {j \in 1..Len(TOPIC_KEYWORDS) :
                                        AnyIn(TOPIC_KEYWORDS[j].keywords, transcript)}}

\* C33: key_topics has at most 5 tags, and when the model call for the
\* topics fails or its reply holds no list that parses, the tags are the
\* topics of the keyword table matched by the transcript.
C33_TopicsFallBackToKeywords ==
    AnalysisCompleted
    => LET key_topics == analysis.result.key_topics
           reply == analysis.topics_llm
       IN  /\ Len(key_topics) <= 5
           /\ (reply.raised \/ reply.content \in {UNQUOTED_TOPICS_REPLY, PROSE_REPLY})
                => {key_topics[i] : i \in 1..Len(key_topics)}
                     = MatchedTopics(analysis.raw_transcript)

\* ---- C34
\* C34: no lifecycle webhook request, whatever its event, removes or changes
\* an emergency flag the stored record holds.
C34_EmergencyFlagKept ==
    [][ ( /\ webhook_count' = webhook_count + 1
          /\ Has(structured_results, "emergency", TRUE) )
        => Has(structured_results', "emergency", TRUE) ]_vars

\* ---- C35
\* C35: a session that is waiting for its next event has its should-end
\* flag FALSE, and a turn-response with end_call = TRUE is only sent by a
\* turn in which the model called report_emergency or end_conversation.
C35_EndFlagOnlyFromEndingCalls ==
    [][ /\ pc' = "awaiting" => ~should_end_call'
        /\ (TurnStep /\ last'.delivered /\ sent'[Len(sent')].end_call)
             => /\ IsFunctionCall(last'.function_call)
                /\ last'.function_call.name \in {"report_emergency", "end_conversation"} ]_vars

\* the second turn ends the call by end_conversation, after a first turn
\* that stored a status and went back to waiting
C35_Witness ==
    /\ pc = "ended"
    /\ LastCalled("end_conversation")
    /\ last.response_id = 2 /\ last.delivered
    /\ LastSent.end_call
    /\ ~sent[2].end_call
    /\ Has(structured_results, "status", "delayed")

\* ---- C36
\* C36: a lifecycle webhook request for a call whose status is completed
\* leaves the status completed, whatever its event.
C36_CompletedStaysCompleted ==
    [][ (webhook_count' = webhook_count + 1 /\ status = "completed")
        => status' = "completed" ]_vars

\* ---- C37
\* the entries of the history with the agent's role
AssistantEntries == SelectSeq(conversation_history, LAMBDA m : m.role = "assistant")

\* C37: while the socket is up, the history holds one assistant entry for
\* every turn-response sent, with the content sent: reply of the model,
\* reply of a function, or apology.
C37_EveryReplyInHistory ==
    peer_connected
    => /\ Len(AssistantEntries) = Len(ResponseIds)
       /\ \A i \in 1..Len(ResponseIds) : AssistantEntries[i].content = sent[i + 1].content

\* ---- C38
\* the record holds a delivery status, under the key the session and the
\* model extraction use or under the heuristic extractor's
StatusRecorded(sr) ==
    \/ Captured(sr, "status")
    \/ Captured(sr, "driver_status") /\ sr.driver_status # "Unknown"

\* C38: an analysis of a record that holds a delivery status, by whichever
\* path it was recorded, has goal_achieved TRUE and the quality score of a
\* record with a status.
C38_StatusCountsFromEveryPath ==
    (AnalysisCompleted /\ StatusRecorded(analysis.structured_results))
    => /\ analysis.result.goal_achieved
       /\ analysis.result.quality_score =
            CalculateQualityScore(analysis.conversation_history,
                                  DictSet(analysis.structured_results, "status", "delayed"),
                                  [sentiment |-> analysis.result.sentiment])

\* ---- C39
\* C39: when the websocket handler has returned, by whichever path, the
\* database session it opened is closed.
C39_SessionClosedOnExit ==
    pc = "ended" => ~db_open

====
